---- MODULE Spec2Model ----
(***************************************************************************)
(* A model of pyod.models.abod: the ABOD detector's fit / decision_function *)
(* lifecycle and the weighted-cosine variance statistic _calculate_wocs.    *)
(*                                                                          *)
(* Conventions.  Rows of a matrix are the elements of a sequence, so row    *)
(* index i of the Python code is index i + 1 here.  A float is an exact     *)
(* rational [nan, n, d] in lowest terms (d > 0), or NaN; rounding is not    *)
(* modelled.  hasattr(self, a) is  a \in attrs.  Of a call, ret also keeps  *)
(* the candidate index lists handed to _calculate_wocs (cand) and, for      *)
(* decision_function, the pairs its loop appended (trace).                  *)
(***************************************************************************)
EXTENDS Integers, Sequences, FiniteSets, TLC

VARIABLES method, n_neighbors, attrs, X_train_, n_train_, decision_scores_,
          tree_, threshold_, labels_,
          ret,     \* the last call: its name, argument, error raised, value returned
          fit_ok   \* history: some call of fit has returned normally

vars == <<method, n_neighbors, attrs, X_train_, n_train_, decision_scores_,
          tree_, threshold_, labels_, ret, fit_ok>>

fitted == <<attrs, X_train_, n_train_, decision_scores_, tree_, threshold_, labels_>>

----------------------------------------------------------------------------
(* Bounds *)

\* rows of a training matrix in Spec
MaxN == 2
\* rows of a training matrix in SpecData
MaxRows == 4

\* the points (D = 2) matrices are drawn from
Points == {<<0, 0>>, <<1, 0>>, <<2, 0>>, <<0, 1>>, <<1, 1>>, <<2, 1>>}
CorePoints == {<<0, 0>>, <<1, 0>>}

----------------------------------------------------------------------------
(* Floats as exact rationals *)

Abs(x) == IF x < 0 THEN -x ELSE x

RECURSIVE GCD(_, _)
GCD(a, b) == IF b = 0 THEN a ELSE GCD(b, a % b)

LCM(a, b) == (a \div GCD(a, b)) * b

NaN == [nan |-> TRUE, n |-> 0, d |-> 1]

\* the float n / d, d # 0
Rat(n, d) ==
    LET g == GCD(Abs(n), Abs(d))
        s == IF d < 0 THEN -1 ELSE 1
    IN  [nan |-> FALSE, n |-> s * (n \div g), d |-> s * (d \div g)]

FromInt(n) == Rat(n, 1)

Zero == FromInt(0)

RAdd(x, y) ==
    IF x.nan \/ y.nan THEN NaN
    ELSE LET l == LCM(x.d, y.d)
         IN  Rat(x.n * (l \div x.d) + y.n * (l \div y.d), l)

RNeg(x) == IF x.nan THEN NaN ELSE [x EXCEPT !.n = -x.n]

RSub(x, y) == RAdd(x, RNeg(y))

RMul(x, y) ==
    IF x.nan \/ y.nan THEN NaN
    ELSE LET g1 == GCD(Abs(x.n), y.d)
             g2 == GCD(Abs(y.n), x.d)
         IN  Rat((x.n \div g1) * (y.n \div g2), (x.d \div g2) * (y.d \div g1))

\* x / k for an integer k; 0 / 0 and x / 0 never arise from finite inputs here
RDivInt(x, k) ==
    IF x.nan \/ k = 0 THEN NaN
    ELSE LET g == GCD(Abs(x.n), Abs(k))
         IN  Rat(x.n \div g, x.d * (k \div g))

RECURSIVE RSum(_)
RSum(s) == IF s = <<>> THEN Zero ELSE RAdd(Head(s), RSum(Tail(s)))

----------------------------------------------------------------------------
(* numpy helpers *)

\* np.dot(a, b)
Dot(a, b) == a[1] * b[1] + a[2] * b[2]

\* a - b on rows
VSub(a, b) == <<a[1] - b[1], a[2] - b[2]>>

\* np.linalg.norm(a, 2) ** 2
Norm2Sq(a) == Dot(a, a)

\* np.array_equal(a, b)
array_equal(a, b) == a[1] = b[1] /\ a[2] = b[2]

\* np.var(list): mean(abs(x - x.mean()) ** 2); NaN for the empty list
Var(list) ==
    IF Len(list) = 0 THEN NaN
    ELSE LET n  == Len(list)
             mu == RDivInt(RSum(list), n)
             sq == [i \in 1..n |-> LET dev == RSub(list[i], mu) IN RMul(dev, dev)]
         IN  RDivInt(RSum(sq), n)

----------------------------------------------------------------------------
(* _calculate_wocs *)

\* a variant: list(permutations(X_ind, 2)), every pair in both orders
permutations2(s) ==
    LET n == Len(s)
    IN  [t \in 1..(n * (n - 1)) |->
            LET i  == ((t - 1) \div (n - 1)) + 1
                jj == ((t - 1) % (n - 1)) + 1
                j  == IF jj >= i THEN jj + 1 ELSE jj
            IN  <<s[i], s[j]>>]

\* list(combinations(X_ind, 2)): position pairs i < j in lexicographic order
RECURSIVE combinations2(_)
combinations2(s) ==
    IF Len(s) < 2 THEN <<>>
    ELSE [j \in 1..(Len(s) - 1) |-> <<s[1], s[j + 1]>>] \o combinations2(Tail(s))

\* the weighted cosine of one pair seen from curr_pt
wcos(a, b, curr_pt) ==
    LET a_curr == VSub(a, curr_pt)
        b_curr == VSub(b, curr_pt)
    IN  RDivInt(RDivInt(FromInt(Dot(a_curr, b_curr)), Norm2Sq(a_curr)), Norm2Sq(b_curr))

\* a variant: skip only when both points coincide with curr_pt
skip_pair_both(a, b, curr_pt) == array_equal(a, curr_pt) /\ array_equal(b, curr_pt)

\* skip if no angle can be formed
skip_pair(a, b, curr_pt) == array_equal(a, curr_pt) \/ array_equal(b, curr_pt)

\* the loop of _calculate_wocs: the pairs that reach wcos_list.append, in order
RECURSIVE wcos_entries(_, _, _)
wcos_entries(curr_pt, X, pairs) ==
    IF pairs = <<>> THEN <<>>
    ELSE LET a_ind == Head(pairs)[1]
             b_ind == Head(pairs)[2]
             a == X[a_ind]
             b == X[b_ind]
             rest == wcos_entries(curr_pt, X, Tail(pairs))
         IN  IF skip_pair(a, b, curr_pt)
             THEN rest
             ELSE <<[a_ind |-> a_ind, b_ind |-> b_ind, wcos |-> wcos(a, b, curr_pt)]>> \o rest

wcos_trace(curr_pt, X, X_ind) == wcos_entries(curr_pt, X, combinations2(X_ind))

\* np.var(wcos_list) of the collected values
var_of(entries) == Var([i \in 1..Len(entries) |-> entries[i].wcos])

calculate_wocs(curr_pt, X, X_ind) == var_of(wcos_trace(curr_pt, X, X_ind))

----------------------------------------------------------------------------
(* Nearest-neighbour queries (sklearn) *)

\* squared Euclidean distance of row i of data to p
dist2(data, i, p) == Norm2Sq(VSub(data[i], p))

\* the row indices in `left`, by ascending distance to p (ties: by index)
RECURSIVE nearest_order(_, _, _)
nearest_order(data, p, left) ==
    IF left = {} THEN <<>>
    ELSE LET m == CHOOSE i \in left : \A j \in left :
                      \/ dist2(data, i, p) < dist2(data, j, p)
                      \/ dist2(data, i, p) = dist2(data, j, p) /\ i <= j
         IN  <<m>> \o nearest_order(data, p, left \ {m})

\* KDTree(data).query([p], k), 1 <= k <= len(data): the k nearest row indices
tree_query(data, p, k) == SubSeq(nearest_order(data, p, DOMAIN data), 1, k)

\* a variant: kneighbors(X_train_), where the sample is its own neighbour
kneighbors_row_keeps_self(X, i, k) == tree_query(X, X[i], k)

\* one row of NearestNeighbors.fit(X).kneighbors(n_neighbors=k) with no query
\* matrix: k + 1 neighbours of X[i] are found and the sample itself is dropped
\* (the first neighbour, when duplicates pushed the sample out of the list)
kneighbors_row(X, i, k) ==
    LET nb == tree_query(X, X[i], k + 1)
    IN  IF \E j \in DOMAIN nb : nb[j] = i
        THEN SelectSeq(nb, LAMBDA x : x # i)
        ELSE Tail(nb)

\* kneighbors raises when, the sample counted in, more neighbours are asked
\* for than there are samples
kneighbors_raises(X, k) == k + 1 > Len(X)

----------------------------------------------------------------------------
(* Collaborators outside the two source files *)

\* utils.utility.check_parameter(param, low, high): TRUE when it raises
check_parameter_raises(param, low, high) == param < low \/ param > high

\* BaseDetector._process_decision_scores: threshold_ and labels_ are derived
\* from decision_scores_; kept as the score array they were derived from
process_decision_scores(scores) == [from |-> scores]

Unset == [from |-> <<>>]

\* sklearn check_is_fitted(self, attributes): TRUE when it raises NotFittedError
not_fitted(have, attributes) == ~(attributes \subseteq have)

----------------------------------------------------------------------------
(* ABOD.fit *)

zeros(n) == [i \in 1..n |-> Zero]

\* a variant: the scores left unflipped
flip_missing(scores) == scores

\* decision_scores_.ravel() * -1, and the * -1 of decision_function
flip(scores) == [i \in DOMAIN scores |-> RNeg(scores[i])]

\* list(range(0, n_train_)) with i removed
all_but(n, i) == SelectSeq([j \in 1..n |-> j], LAMBDA x : x # i)

\* _fit_default: the candidate list and raw score of every training row
fit_default(X) ==
    LET n == Len(X)
        cand == [i \in 1..n |-> all_but(n, i)]
    IN  [err |-> "none", tree |-> FALSE, cand |-> cand,
         scores |-> [i \in 1..n |-> calculate_wocs(X[i], X, cand[i])]]

\* _fit_fast: range check, tree_, neighbour query, raw scores
fit_fast(X, k) ==
    LET n == Len(X)
        cand == [i \in 1..n |-> kneighbors_row(X, i, k)]
    IN  IF check_parameter_raises(k, 1, n)
        THEN [err |-> "ValueError: parameter out of range", tree |-> FALSE,
              cand |-> <<>>, scores |-> zeros(n)]
        ELSE IF kneighbors_raises(X, k)
        THEN [err |-> "ValueError: n_neighbors > n_samples", tree |-> TRUE,
              cand |-> <<>>, scores |-> zeros(n)]
        ELSE [err |-> "none", tree |-> TRUE, cand |-> cand,
              scores |-> [i \in 1..n |-> calculate_wocs(X[i], X, cand[i])]]

\* the attributes fit assigns before it dispatches on the method
fit_first_attrs == {"X_train_", "n_train_", "decision_scores_"}

fit_dispatch(X) ==
    IF method = "fast" THEN fit_fast(X, n_neighbors)
    ELSE IF method = "default" THEN fit_default(X)
    ELSE [err |-> "ValueError: not a valid method", tree |-> FALSE,
          cand |-> <<>>, scores |-> zeros(Len(X))]

fit(X) ==
    LET r == fit_dispatch(X)
        ok == r.err = "none"
        final == IF ok THEN flip(r.scores) ELSE r.scores
    IN  /\ X_train_' = X
        /\ n_train_' = Len(X)
        /\ decision_scores_' = final
        /\ tree_' = IF r.tree THEN X ELSE tree_
        /\ threshold_' = IF ok THEN process_decision_scores(final) ELSE threshold_
        /\ labels_' = IF ok THEN process_decision_scores(final) ELSE labels_
        /\ attrs' = attrs \cup fit_first_attrs
                          \cup (IF r.tree THEN {"tree_"} ELSE {})
                          \cup (IF ok THEN {"threshold_", "labels_"} ELSE {})
        /\ ret' = [op |-> "fit", err |-> r.err, q |-> X, val |-> <<>>,
                   cand |-> r.cand, trace |-> <<>>]
        /\ fit_ok' = (fit_ok \/ ok)
        /\ UNCHANGED <<method, n_neighbors>>

----------------------------------------------------------------------------
(* ABOD.decision_function *)

\* a variant: only the attributes fit assigns itself are required
required_attrs_own == {"X_train_", "n_train_", "decision_scores_"}

\* the attributes decision_function requires before it scores
required_attrs == {"X_train_", "n_train_", "decision_scores_", "threshold_", "labels_"}

\* list(range(0, n_train_))
all_rows(n) == [j \in 1..n |-> j]

\* X[a_ind, :] raises IndexError as soon as a pair names a row X does not have
index_error(X, X_ind) == Len(X_ind) >= 2 /\ \E j \in DOMAIN X_ind : X_ind[j] > Len(X)

\* the scoring loop shared by both paths, over the candidate lists cand
score_rows(Q, cand) ==
    IF \E r \in DOMAIN Q : index_error(X_train_, cand[r])
    THEN [err |-> "IndexError", cand |-> cand, trace |-> <<>>, scores |-> <<>>]
    ELSE LET trace == [r \in DOMAIN Q |-> wcos_trace(Q[r], X_train_, cand[r])]
         IN  [err |-> "none", cand |-> cand, trace |-> trace,
              scores |-> [r \in DOMAIN Q |-> var_of(trace[r])]]

\* _decision_function_default
decision_function_default(Q) ==
    score_rows(Q, [r \in DOMAIN Q |-> all_rows(n_train_)])

\* _decision_function_fast; tree_.query raises when k exceeds the indexed rows
\* (n_neighbors >= 1 wherever the query is reached: Spec never sets a smaller
\* one, and in SpecData a model built with one is never fitted)
decision_function_fast(Q) ==
    IF not_fitted(attrs, {"tree_"})
    THEN [err |-> "NotFittedError", cand |-> <<>>, trace |-> <<>>, scores |-> <<>>]
    ELSE IF n_neighbors > Len(tree_)
    THEN [err |-> "ValueError: k > indexed points", cand |-> <<>>, trace |-> <<>>,
          scores |-> <<>>]
    ELSE score_rows(Q, [r \in DOMAIN Q |-> tree_query(tree_, Q[r], n_neighbors)])

decision_function_dispatch(Q) ==
    IF not_fitted(attrs, required_attrs)
    THEN [err |-> "NotFittedError", cand |-> <<>>, trace |-> <<>>, scores |-> <<>>]
    ELSE IF method = "fast" THEN decision_function_fast(Q)
    ELSE decision_function_default(Q)

\* a variant: decision_function keeps the validated query as X_train_
decision_function_overwrites(Q) ==
    /\ X_train_' = Q
    /\ n_train_' = Len(Q)
    /\ UNCHANGED <<attrs, decision_scores_, tree_, threshold_, labels_,
                   method, n_neighbors, fit_ok>>

\* decision_function assigns no attribute of self
decision_function_effect(Q) == UNCHANGED <<fitted, method, n_neighbors, fit_ok>>

decision_function(Q) ==
    LET r == decision_function_dispatch(Q)
    IN  /\ ret' = [op |-> "decision_function", err |-> r.err, q |-> Q,
                   val |-> flip(r.scores), cand |-> r.cand, trace |-> r.trace]
        /\ decision_function_effect(Q)

----------------------------------------------------------------------------
(* Parameters: ABOD.__init__ and later assignment to self.method, self.n_neighbors *)

Methods == {"fast", "default", "exact"}

called(op) == [op |-> op, err |-> "none", q |-> <<>>, val |-> <<>>,
               cand |-> <<>>, trace |-> <<>>]

set_method(m) ==
    /\ m # method
    /\ method' = m
    /\ ret' = called("set_params")
    /\ UNCHANGED <<fitted, n_neighbors, fit_ok>>

set_n_neighbors(k) ==
    /\ k # n_neighbors
    /\ n_neighbors' = k
    /\ ret' = called("set_params")
    /\ UNCHANGED <<fitted, method, fit_ok>>

\* the object __init__ leaves: parameters stored, no fitted attribute
fresh(m, k) ==
    /\ method = m
    /\ n_neighbors = k
    /\ attrs = {}
    /\ X_train_ = <<>>
    /\ n_train_ = 0
    /\ decision_scores_ = <<>>
    /\ tree_ = <<>>
    /\ threshold_ = Unset
    /\ labels_ = Unset
    /\ ret = called("init")
    /\ fit_ok = FALSE

----------------------------------------------------------------------------
(* Inputs *)

PtLeq(a, b) == a[1] < b[1] \/ (a[1] = b[1] /\ a[2] <= b[2])

\* the matrices of 1..maxlen rows over pts; rows in lexicographic order, since
\* the order of rows only names them
Matrices(pts, maxlen) ==
    UNION {{s \in [1..n -> pts] : \A i \in 1..(n - 1) : PtLeq(s[i], s[i + 1])} : n \in 1..maxlen}

----------------------------------------------------------------------------
(* Spec: one detector over its lifetime, refitted and reconfigured at will *)

Init == \E m \in Methods, k \in 1..MaxN : fresh(m, k)

Fit == \E X \in Matrices(CorePoints, MaxN) : fit(X)

\* one query row: decision_function scores each row on its own
Score == \E Q \in Matrices(CorePoints, 1) : decision_function(Q)

SetMethod == \E m \in Methods : set_method(m)

SetNeighbors == \E k \in 1..MaxN : set_n_neighbors(k)

Next == Fit \/ Score \/ SetMethod \/ SetNeighbors

Spec == Init /\ [][Next]_vars

----------------------------------------------------------------------------
(* SpecData: a detector fitted once on richer data, then scored once, on one *)
(* query row or on the training matrix itself                               *)

InitData == \E m \in {"fast", "default"}, k \in 0..(MaxRows + 1) : fresh(m, k)

FitData == attrs = {} /\ ret.op = "init" /\ \E X \in Matrices(Points, MaxRows) : fit(X)

ScoreData == ret.op = "fit" /\ \E Q \in Matrices(Points, 1) : decision_function(Q)

ScoreTrain == ret.op = "fit" /\ decision_function(X_train_)

NextData == FitData \/ ScoreData \/ ScoreTrain

SpecData == InitData /\ [][NextData]_vars

----------------------------------------------------------------------------
(* Vocabulary of the properties *)

Range(s) == {s[i] : i \in DOMAIN s}

Distinct(X) == \A i, j \in DOMAIN X : i # j => X[i] # X[j]

Called(op) == ret.op = op

Returned(op) == ret.op = op /\ ret.err = "none"

\* the unordered pairs of C neither member of which coincides with the pivot P
ContributingPairs(P, X, C) ==
    {pr \in SUBSET C : Cardinality(pr) = 2 /\ \A a \in pr : X[a] # P}

\* dot(a, b) / (|a|^2 |b|^2) for the pair pr seen from P
PairValue(pr, P, X) ==
    LET a == CHOOSE x \in pr : TRUE
        b == CHOOSE x \in pr : x # a
    IN  Rat(Dot(VSub(X[a], P), VSub(X[b], P)),
            Norm2Sq(VSub(X[a], P)) * Norm2Sq(VSub(X[b], P)))

\* the sum and the sum of squares of the pair values over S
RECURSIVE Moments(_, _, _)
Moments(S, P, X) ==
    IF S = {} THEN [s1 |-> Zero, s2 |-> Zero]
    ELSE LET pr == CHOOSE x \in S : TRUE
             v  == PairValue(pr, P, X)
             m  == Moments(S \ {pr}, P, X)
         IN  [s1 |-> RAdd(m.s1, v), s2 |-> RAdd(m.s2, RMul(v, v))]

\* population variance E[x^2] - E[x]^2 of the pair values over S; NaN over no pair
PopVariance(S, P, X) ==
    LET n == Cardinality(S)
        m == Moments(S, P, X)
        mean == RDivInt(m.s1, n)
    IN  IF n = 0 THEN NaN ELSE RSub(RDivInt(m.s2, n), RMul(mean, mean))

\* the statistic of section 4.1 for pivot P over the candidate set C
WOCS(P, X, C) == PopVariance(ContributingPairs(P, X, C), P, X)

\* C holds k of the rows `among`, none farther from p than a row left out
IsKNearest(C, data, p, k, among) ==
    /\ C \subseteq among
    /\ Cardinality(C) = k
    /\ \A a \in C, b \in among \ C : dist2(data, a, p) <= dist2(data, b, p)

\* x < y on floats
RLess(x, y) ==
    /\ ~x.nan /\ ~y.nan
    /\ LET l == LCM(x.d, y.d)
       IN  x.n * (l \div x.d) < y.n * (l \div y.d)

\* == of two floats
FloatEq(x, y) == ~x.nan /\ ~y.nan /\ x = y

StateAttrs == <<X_train_, n_train_, decision_scores_, tree_, threshold_, labels_>>

----------------------------------------------------------------------------
(* Properties *)

\* C1: on a model on which no call of fit has returned normally (also one whose
\* fit calls all raised), decision_function raises NotFittedError and returns
\* no scores, whatever the query and the method.
C1_NotFittedUntilFitSucceeds ==
    (Called("decision_function") /\ ~fit_ok) =>
        (ret.err = "NotFittedError" /\ ret.val = <<>>)

C1_Witness ==
    /\ Called("decision_function") /\ ~fit_ok
    /\ "decision_scores_" \in attrs
    /\ ret.err = "NotFittedError"

\* C2: a fit that raises for an invalid method string leaves X_train_,
\* n_train_, decision_scores_, tree_, threshold_ and labels_ as they were.
C2_InvalidMethodFitKeepsState ==
    [][(ret'.op = "fit" /\ ret'.err = "ValueError: not a valid method")
         => UNCHANGED StateAttrs]_vars

\* C3: a fast-mode fit on N rows returns normally for every 1 <= k <= N, and
\* for every other k raises the parameter-range error before tree_ is built.
C3_FastFitAcceptsOneToN ==
    (Called("fit") /\ method = "fast") =>
        IF 1 <= n_neighbors /\ n_neighbors <= n_train_
        THEN ret.err = "none"
        ELSE ret.err = "ValueError: parameter out of range" /\ "tree_" \notin attrs

C5_RoundTripDiffers ==
    (Returned("decision_function") /\ method = "default" /\ ret.q = X_train_) =>
        \E i \in 1..n_train_ : ~FloatEq(ret.val[i], decision_scores_[i])

\* C5 as amended: in default mode, scoring the training matrix itself returns
\* for every row the very value fit stored for it (NaN where fit stored NaN):
\* the coincidence skip discards every pair that holds the row itself.
C5_RoundTripEqual ==
    (Returned("decision_function") /\ method = "default" /\ ret.q = X_train_) =>
        ret.val = decision_scores_

C5_Witness ==
    /\ Returned("decision_function") /\ method = "default" /\ ret.q = X_train_
    /\ \E i \in 1..n_train_ : ~ret.val[i].nan /\ ret.val[i] # Zero

\* C6: on a fitted model decision_function changes no fitted attribute, and
\* called again with the same query it returns the same scores.
C6_DecisionFunctionPure ==
    [][(fit_ok /\ ret'.op = "decision_function") =>
          /\ UNCHANGED <<StateAttrs, attrs>>
          /\ (ret.op = "decision_function" /\ ret'.q = ret.q) =>
                 (ret'.val = ret.val /\ ret'.err = ret.err)]_vars

C6_Witness ==
    /\ Returned("decision_function") /\ fit_ok
    /\ ~ret.val[1].nan

\* C7: default-mode fit stores -WOCS(X[i], X, all rows but i) for every row i,
\* and default-mode decision_function returns -WOCS(q, X, all rows) for every
\* query row q.
C7_DefaultModeScores ==
    /\ (Returned("fit") /\ method = "default") =>
          \A i \in 1..n_train_ :
              /\ Range(ret.cand[i]) = (1..n_train_) \ {i}
              /\ decision_scores_[i] = RNeg(WOCS(X_train_[i], X_train_, (1..n_train_) \ {i}))
    /\ (Returned("decision_function") /\ method = "default") =>
          \A r \in DOMAIN ret.q :
              /\ Range(ret.cand[r]) = 1..n_train_
              /\ ret.val[r] = RNeg(WOCS(ret.q[r], X_train_, 1..n_train_))

C7_Witness ==
    /\ Returned("decision_function") /\ method = "default"
    /\ n_train_ >= 3
    /\ ~ret.val[1].nan /\ ret.val[1] # Zero

\* C8: over a list of distinct candidate indices, _calculate_wocs appends one
\* value for each unordered pair with no member coincident with the pivot and
\* for no other pair, and returns their population variance: NaN when it
\* appended nothing, 0 when it appended one value.
C8_WocsOverUnorderedPairs ==
    Returned("decision_function") =>
        \A r \in DOMAIN ret.q :
            LET T == ret.trace[r]
                C == Range(ret.cand[r])
                S == ContributingPairs(ret.q[r], X_train_, C)
            IN  Cardinality(C) = Len(ret.cand[r]) =>
                  /\ {{T[i].a_ind, T[i].b_ind} : i \in DOMAIN T} = S
                  /\ Len(T) = Cardinality(S)
                  /\ \A i \in DOMAIN T :
                         T[i].wcos = PairValue({T[i].a_ind, T[i].b_ind}, ret.q[r], X_train_)
                  /\ ret.val[r] = RNeg(PopVariance(S, ret.q[r], X_train_))
                  /\ (Len(T) = 0 => ret.val[r].nan)
                  /\ (Len(T) = 1 => ret.val[r] = Zero)

C8_Witness ==
    /\ Returned("decision_function")
    /\ Len(ret.trace[1]) >= 2
    /\ Len(ret.trace[1]) < Len(combinations2(ret.cand[1]))
    /\ ret.val[1] # Zero

\* C9: on pairwise distinct rows with k = N - 1, fast-mode fit scores every row
\* over the candidates default-mode fit uses, and so ranks the rows as
\* default-mode fit does.
C9_FastAgreesWithDefault ==
    (Returned("fit") /\ method = "fast" /\ n_neighbors = n_train_ - 1
        /\ Distinct(X_train_)) =>
        LET d == fit_default(X_train_)
            by_default == flip(d.scores)
        IN  \A i \in 1..n_train_ :
              /\ Range(ret.cand[i]) = Range(d.cand[i])
              /\ \A j \in 1..n_train_ :
                     RLess(decision_scores_[i], decision_scores_[j])
                         <=> RLess(by_default[i], by_default[j])

C9_Witness ==
    /\ Returned("fit") /\ method = "fast" /\ n_neighbors = n_train_ - 1
    /\ Distinct(X_train_) /\ n_train_ >= 4
    /\ \E i, j \in 1..n_train_ : RLess(decision_scores_[i], decision_scores_[j])

\* C10: whenever fast-mode decision_function gets past the not-fitted checks,
\* the tree_ it queries was built from the current X_train_.
C10_TreeIndexesTrainingSet ==
    (Called("decision_function") /\ method = "fast" /\ ret.err # "NotFittedError") =>
        tree_ = X_train_

====
